---- MODULE Spec2Model ----
(***************************************************************************)
(* Model of OrdenLexicoDiscretas.py: the residue catalog, the validity     *)
(* predicate is_valid_peptide and the scan of generate_peptides.           *)
(*                                                                         *)
(* Floating point.  The hydrophobicity arithmetic of the program is IEEE   *)
(* binary64.  A double is written here as a record [t, d, e] that stands   *)
(* for the exact rational                                                  *)
(*          (t * 2^62 + e) / (10 * d * 2^62)                               *)
(* so t/(10*d) is the decimal value one would compute on paper and e is    *)
(* the (small) distance of the double from it, in units of                 *)
(* 1/(10*d*2^62).  Every operation of the program (literal, +, /, *100,    *)
(* round(x, 2)) is modelled by its exact result followed by rounding to    *)
(* the binary64 grid, ties to even (operator Fl).                          *)
(***************************************************************************)
EXTENDS Integers, Sequences, FiniteSets, TLC

\* ------------------------------------------------------------------ bounds
\* largest peptide length k passed to generate_peptides
MaxK == 4
\* largest small result cap max_results passed to generate_peptides
MaxM == 3
\* one deep result cap, large enough for the scan of length 4 to reach "ATVY"
DeepM == 36
\* largest length of the sequences handed directly to is_valid_peptide
MaxLen == 4

\* ----------------------------------------------------------------- catalog
\* amino_acids (lines 6-27).  hydrophobicity holds the double nearest to the
\* decimal literal: t is the literal in tenths, e its binary64 representation
\* error in units of 1/(10*2^62).
amino_acids ==
    [   A |-> [mass |-> 89, hydrophobicity |-> [t |-> 18, e |-> 2048], polarity |-> "nonpolar"],
        C |-> [mass |-> 121, hydrophobicity |-> [t |-> 25, e |-> 0], polarity |-> "polar"],
        D |-> [mass |-> 133, hydrophobicity |-> [t |-> -35, e |-> 0], polarity |-> "negative"],
        E |-> [mass |-> 147, hydrophobicity |-> [t |-> -35, e |-> 0], polarity |-> "negative"],
        F |-> [mass |-> 165, hydrophobicity |-> [t |-> 28, e |-> -8192], polarity |-> "nonpolar"],
        G |-> [mass |-> 75, hydrophobicity |-> [t |-> -4, e |-> -1024], polarity |-> "nonpolar"],
        H |-> [mass |-> 155, hydrophobicity |-> [t |-> -32, e |-> -8192], polarity |-> "positive"],
        I |-> [mass |-> 131, hydrophobicity |-> [t |-> 45, e |-> 0], polarity |-> "nonpolar"],
        K |-> [mass |-> 146, hydrophobicity |-> [t |-> -39, e |-> 4096], polarity |-> "positive"],
        L |-> [mass |-> 131, hydrophobicity |-> [t |-> 38, e |-> -8192], polarity |-> "nonpolar"],
        M |-> [mass |-> 149, hydrophobicity |-> [t |-> 19, e |-> -4096], polarity |-> "nonpolar"],
        N |-> [mass |-> 132, hydrophobicity |-> [t |-> -35, e |-> 0], polarity |-> "polar"],
        P |-> [mass |-> 115, hydrophobicity |-> [t |-> -16, e |-> -4096], polarity |-> "nonpolar"],
        Q |-> [mass |-> 146, hydrophobicity |-> [t |-> -35, e |-> 0], polarity |-> "polar"],
        R |-> [mass |-> 174, hydrophobicity |-> [t |-> -45, e |-> 0], polarity |-> "positive"],
        S |-> [mass |-> 105, hydrophobicity |-> [t |-> -8, e |-> -2048], polarity |-> "polar"],
        T |-> [mass |-> 119, hydrophobicity |-> [t |-> -7, e |-> 2048], polarity |-> "polar"],
        V |-> [mass |-> 117, hydrophobicity |-> [t |-> 42, e |-> 8192], polarity |-> "nonpolar"],
        W |-> [mass |-> 204, hydrophobicity |-> [t |-> -9, e |-> -1024], polarity |-> "nonpolar"],
        Y |-> [mass |-> 181, hydrophobicity |-> [t |-> -13, e |-> -2048], polarity |-> "polar"] ]

\* the keys of the catalog
Codes == DOMAIN amino_acids

\* a one-character code that is no key of the catalog
UnknownCode == "X"

\* ord(): the code point of a one-character string, the order str compares by
ord ==
    [   A |-> 65, C |-> 67, D |-> 68, E |-> 69, F |-> 70, G |-> 71, H |-> 72,
        I |-> 73, K |-> 75, L |-> 76, M |-> 77, N |-> 78, P |-> 80, Q |-> 81,
        R |-> 82, S |-> 83, T |-> 84, V |-> 86, W |-> 87, X |-> 88, Y |-> 89 ]

\* F(x), with x evaluated once (TLC evaluates a LET definition or an operator
\* argument again at every use; a bound variable holds a value)
Bind(x, F(_)) == CHOOSE r \in {F(v) : v \in {x}} : TRUE

RECURSIVE sorted(_)
\* sorted(keys): ascending by code point, smallest first
sorted(keys) ==
    IF keys = {} THEN << >>
    ELSE Bind(CHOOSE c \in keys : \A o \in keys : ord[c] <= ord[o],
              LAMBDA least : << least >> \o sorted(keys \ {least}))

\* sorted_aas (line 30)
sorted_aas == sorted(Codes)

\* ------------------------------------------------------- binary64 arithmetic
\* 2^n for 0 <= n <= 18
Pow2(n) ==
    << 1, 2, 4, 8, 16, 32, 64, 128, 256, 512, 1024, 2048, 4096, 8192, 16384,
       32768, 65536, 131072, 262144 >>[n + 1]

RECURSIVE PowMod(_, _)
\* 2^n modulo m, by repeated squaring
PowMod(n, m) ==
    IF n = 0 THEN 1 % m
    ELSE Bind(PowMod(n \div 2, m),
              LAMBDA h : IF n % 2 = 0 THEN (h * h) % m ELSE (2 * h * h) % m)

Abs(x) == IF x < 0 THEN -x ELSE x

Sign(x) == IF x > 0 THEN 1 ELSE IF x < 0 THEN -1 ELSE 0

RECURSIVE BinadeBelow(_, _, _)
\* the largest p' <= p with 10 * d * 2^(p' + 10) <= a
BinadeBelow(a, d, p) ==
    IF 10 * d * Pow2(p + 10) <= a THEN p ELSE BinadeBelow(a, d, p - 1)

\* The binade of the exact value (t*2^62 + e)/(10*d*2^62), which is at least
\* 2^-10 and below 2^8: the p with 2^p <= |value| < 2^(p+1).  e only matters
\* when t/(10*d) is a power of two.
Binade(t, d, e) ==
    Bind(BinadeBelow(Abs(t) * 1024, d, 7),
         LAMBDA p0 : IF /\ Abs(t) * 1024 = 10 * d * Pow2(p0 + 10)
                        /\ e # 0
                        /\ Sign(e) # Sign(t)
                     THEN p0 - 1 ELSE p0)

\* round to nearest, ties to even: e moved to a multiple of m, where r is the
\* value modulo m and odd tells that the multiple below is an odd one
Nearest(e, m, r, odd) ==
    IF r = 0 THEN e
    ELSE IF 2 * r < m THEN e - r
    ELSE IF 2 * r > m THEN e + m - r
    ELSE IF odd THEN e + m - r
    ELSE e - r

\* Rounding within binade p: there the doubles are the multiples of 2^(p-52),
\* which is m == 10*d*q, q == 2^(p+10), of the units of e.  The exact value
\* modulo m is r, and modulo 2*m it tells the parity of the multiple below.
RoundIn(t, d, e, p) ==
    Bind(Pow2(p + 10), LAMBDA q :
    Bind((q * ((t * PowMod(52 - p, 10 * d)) % (10 * d)) + e) % (10 * d * q), LAMBDA r :
        Nearest(e, 10 * d * q, r,
                (((2 * q * ((t * PowMod(51 - p, 10 * d)) % (10 * d)) + e) % (20 * d * q)) - r)
                    \div (10 * d * q) = 1)))

\* Round-to-nearest, ties-to-even, of the exact value (t*2^62 + e)/(10*d*2^62)
\* to binary64: the e of the double.  A value below 2^-10 (only an exactly
\* cancelled sum, t = 0) is left as it is.
Fl(t, d, e) ==
    IF Abs(t) * 1024 < 10 * d THEN e
    ELSE Bind(Binade(t, d, e), LAMBDA p : RoundIn(t, d, e, p))

\* x + y on doubles of denominator 10
FloatAdd(x, y) ==
    Bind(x.t + y.t, LAMBDA t : Bind(x.e + y.e, LAMBDA e : [t |-> t, e |-> Fl(t, 1, e)]))

RECURSIVE SumSequential(_, _, _)
\* builtin sum() up to CPython 3.11: acc = acc + item, rounded at every step
SumSequential(xs, i, acc) ==
    IF i > Len(xs) THEN acc
    ELSE Bind(FloatAdd(acc, xs[i]), LAMBDA s : SumSequential(xs, i + 1, s))

RECURSIVE SumCompensated(_, _, _, _)
\* builtin sum() since CPython 3.12 (Neumaier): the rounding error of every
\* step is kept exactly in c and added to the result once, at the end
SumCompensated(xs, i, acc, c) ==
    IF i > Len(xs)
    THEN IF c = 0 THEN acc ELSE [t |-> acc.t, e |-> Fl(acc.t, 1, acc.e + c)]
    ELSE Bind(FloatAdd(acc, xs[i]),
              LAMBDA s : Bind(c + (acc.e + xs[i].e) - s.e,
                              LAMBDA c2 : SumCompensated(xs, i + 1, s, c2)))

\* The float summation algorithms of the interpreters the program runs on
FloatSums == {"sequential", "compensated"}

\* sum(xs) of a non-empty sequence of doubles: int 0 + xs[1] is exact
FloatSum(xs, how) ==
    Bind(xs, LAMBDA v : IF how = "sequential" THEN SumSequential(v, 2, v[1])
                        ELSE SumCompensated(v, 2, v[1], 0))

\* x / n for a double x of denominator 10 and an int n >= 1: denominator 10*n
FloatDiv(x, n) ==
    Bind(x, LAMBDA v : [t |-> v.t, d |-> n, e |-> Fl(v.t, n, v.e)])

\* a / b for ints, b # 0, as a double of denominator 10*|b|
IntDiv(a, b) ==
    Bind(IF b < 0 THEN -10 * a ELSE 10 * a,
         LAMBDA t : Bind(Abs(b), LAMBDA d : [t |-> t, d |-> d, e |-> Fl(t, d, 0)]))

\* x * 100
FloatTimes100(x) ==
    Bind(x, LAMBDA v : [t |-> 100 * v.t, d |-> v.d, e |-> Fl(100 * v.t, v.d, 100 * v.e)])

\* x <= 1.0
FloatLeqOne(x) == x.t < 10 * x.d \/ (x.t = 10 * x.d /\ x.e <= 0)

\* round(x, 2), in hundredths: correctly rounded from the exact value of the
\* double, ties (possible only when the double is exactly x.xx5) to even
round2(x) ==
    LET a == (10 * x.t) \div x.d
        b == (10 * x.t) % x.d
    IN  IF 2 * b < x.d THEN a
        ELSE IF 2 * b > x.d THEN a + 1
        ELSE IF x.e > 0 THEN a + 1
        ELSE IF x.e < 0 THEN a
        ELSE IF a % 2 = 0 THEN a ELSE a + 1

\* ------------------------------------------------------- is_valid_peptide
VARIABLES
    float_sum,   \* the summation algorithm of the interpreter (fixed per run)
    sequence,    \* the argument of a direct call of is_valid_peptide
    verdict,     \* what that call returned or raised
    vpc          \* "idle" | "call" | "returned" | "raised"

RECURSIVE repeat_window_short(_, _)
\* the loop with range(len(sequence) - 3): the last window is never looked at
repeat_window_short(seq, i) ==
    IF i > Len(seq) - 3 THEN FALSE
    ELSE IF seq[i] = seq[i + 1] /\ seq[i + 1] = seq[i + 2] THEN TRUE
    ELSE repeat_window_short(seq, i + 1)

RECURSIVE repeat_window(_, _)
\* lines 36-38: for i in range(len(sequence) - 2), TRUE when some window of
\* three equal codes starts at position i or later (1-based here)
repeat_window(seq, i) ==
    IF i > Len(seq) - 2 THEN FALSE
    ELSE IF seq[i] = seq[i + 1] /\ seq[i + 1] = seq[i + 2] THEN TRUE
    ELSE repeat_window(seq, i + 1)

RECURSIVE mass_sum(_, _)
\* sum(amino_acids[aa]['mass'] ...) over known codes (ints: exact)
mass_sum(seq, i) ==
    IF i > Len(seq) THEN 0 ELSE amino_acids[seq[i]].mass + mass_sum(seq, i + 1)

\* sum(1 for aa in sequence if polarity == 'nonpolar')
nonpolar_count(seq) ==
    Cardinality({i \in 1..Len(seq) : amino_acids[seq[i]].polarity = "nonpolar"})

\* sum(hydrophobicity ...) / len(sequence), for a non-empty sequence of known codes
RECURSIVE hydrophobicities(_, _)
\* the generator amino_acids[aa]['hydrophobicity'] for aa in sequence, from
\* position i on
hydrophobicities(seq, i) ==
    IF i > Len(seq) THEN << >>
    ELSE << amino_acids[seq[i]].hydrophobicity >> \o hydrophobicities(seq, i + 1)

avg_hydro(seq, how) ==
    Bind(FloatSum(hydrophobicities(seq, 1), how), LAMBDA x : FloatDiv(x, Len(seq)))

\* nonpolar_count / len(sequence) > 0.5: the quotient of two ints, rounded to
\* a double, against the double 0.5
nonpolar_over_half(seq) ==
    Bind(IntDiv(nonpolar_count(seq), Len(seq)),
         LAMBDA x : 2 * x.t > 10 * x.d \/ (2 * x.t = 10 * x.d /\ x.e > 0))

\* is_valid_peptide with the properties computed before the repeat check:
\* every code is looked up first
is_valid_peptide_lookup_first(seq, how) ==
    IF \E i \in 1..Len(seq) : seq[i] \notin Codes THEN "KeyError"
    ELSE IF Len(seq) = 0 THEN "ZeroDivisionError"
    ELSE IF repeat_window(seq, 1) THEN "False"
    ELSE IF ~(500 <= mass_sum(seq, 1) /\ mass_sum(seq, 1) <= 2000) THEN "False"
    ELSE IF FloatLeqOne(avg_hydro(seq, how)) THEN "False"
    ELSE IF nonpolar_over_half(seq) THEN "False"
    ELSE "True"

\* is_valid_peptide (lines 33-52): "True", "False", or the exception raised
is_valid_peptide(seq, how) ==
    IF repeat_window(seq, 1) THEN "False"
    ELSE IF \E i \in 1..Len(seq) : seq[i] \notin Codes THEN "KeyError"
    ELSE IF Len(seq) = 0 THEN "ZeroDivisionError"
    ELSE IF ~(500 <= mass_sum(seq, 1) /\ mass_sum(seq, 1) <= 2000) THEN "False"
    ELSE IF FloatLeqOne(avg_hydro(seq, how)) THEN "False"
    ELSE IF nonpolar_over_half(seq) THEN "False"
    ELSE "True"

\* ------------------------------------------------------ generate_peptides
VARIABLES
    run,         \* the activation of generate_peptides under study
    peer,        \* a second, independent activation: same k, cap max_results + 1
    twin         \* a third, independent activation: same k, same cap

vars == << float_sum, sequence, verdict, vpc, run, peer, twin >>

\* itertools.product(sorted_aas, repeat=k) just created: nothing yielded yet.
\* idx holds the 1-based positions in sorted_aas of the tuple yielded last.
product(k) == [fresh |-> TRUE, idx |-> [i \in 1..k |-> 1]]

RECURSIVE TupleOf(_)
\* the tuple of codes the iterator yielded last
TupleOf(idx) ==
    IF idx = << >> THEN << >>
    ELSE << sorted_aas[Head(idx)] >> \o TupleOf(Tail(idx))

\* an iterator that stops before the last code of a position is used
HasNext_short(it) ==
    it.fresh \/ \E i \in 1..Len(it.idx) : it.idx[i] < Len(sorted_aas) - 1

\* next() has another tuple: the first one, or the odometer can still move
HasNext(it) == it.fresh \/ \E i \in 1..Len(it.idx) : it.idx[i] < Len(sorted_aas)

\* an odometer that forgets to reset: the rightmost position that can move is
\* incremented and the positions to its right stay at the last code
Advance_no_reset(idx) ==
    Bind(CHOOSE i \in 1..Len(idx) :
             /\ idx[i] < Len(sorted_aas)
             /\ \A h \in (i + 1)..Len(idx) : idx[h] = Len(sorted_aas),
         LAMBDA j : [i \in 1..Len(idx) |-> IF i = j THEN idx[i] + 1 ELSE idx[i]])

\* the odometer step of product: the rightmost position that can move is
\* incremented and every position to its right is reset
Advance(idx) ==
    Bind(CHOOSE i \in 1..Len(idx) :
             /\ idx[i] < Len(sorted_aas)
             /\ \A h \in (i + 1)..Len(idx) : idx[h] = Len(sorted_aas),
         LAMBDA j : [i \in 1..Len(idx) |->
                        IF i < j THEN idx[i] ELSE IF i = j THEN idx[i] + 1 ELSE 1])

\* next(it): the iterator after yielding its next tuple
NextOf(it) ==
    IF it.fresh THEN [it EXCEPT !.fresh = FALSE]
    ELSE [it EXCEPT !.idx = Advance(it.idx)]

\* lines 70-79: the record appended for a valid tuple.  sequence is the joined
\* string, kept as its sequence of characters; hydrophobicity and
\* nonpolar_ratio are round(x, 2), in hundredths.
candidate(seq, k, how) ==
    [ sequence |-> seq,
      mass |-> mass_sum(seq, 1),
      hydrophobicity |->
          Bind(FloatSum(hydrophobicities(seq, 1), how),
               LAMBDA x : Bind(FloatDiv(x, k), LAMBDA hydro : round2(hydro))),
      nonpolar_ratio |->
          Bind(IntDiv(nonpolar_count(seq), k), LAMBDA nonpolar : round2(nonpolar)) ]

\* results.insert(0, ...): the newest record first
prepend(results, c) == << c >> \o results

\* results.append(...) (line 74)
append(results, c) == Append(results, c)

\* the break taken one append late: if len(results) > max_results
cap_reached_late(results, max_results) == Len(results) > max_results

\* line 80: if len(results) >= max_results: break
cap_reached(results, max_results) == Len(results) >= max_results

\* the ratio left as a fraction: round(len(results) / max_results, 2), in
\* hundredths
validation_ratio_fraction(n, max_results) ==
    IF max_results # 0
    THEN Bind(IntDiv(n, max_results), LAMBDA q : round2(q))
    ELSE 0

\* line 85: round(len(results) / max_results * 100, 2) if max_results else 0,
\* in hundredths (of a percent)
validation_ratio(n, max_results) ==
    IF max_results # 0
    THEN Bind(IntDiv(n, max_results),
              LAMBDA q : Bind(FloatTimes100(q), LAMBDA pct : round2(pct)))
    ELSE 0

RECURSIVE power(_, _)
\* line 84: len(sorted_aas) ** k for k >= 0
power(b, k) == IF k = 0 THEN 1 ELSE b * power(b, k - 1)

\* the frame of a call generate_peptides(k, max_results) about to run
NewCall(k, max_results) ==
    [ k |-> k, max_results |-> max_results, pc |-> "call",
      it |-> [fresh |-> TRUE, idx |-> << >>], results |-> << >>,
      valid_ratio |-> "unset", total_sequences |-> "unset", raised |-> "none" ]

\* no call at all
NoCall == [NewCall(1, 1) EXCEPT !.pc = "idle"]

\* lines 58-68: results = [], then the iterator is built; product raises
\* ValueError for a negative repeat
Start(r) ==
    IF r.k < 0 THEN [r EXCEPT !.pc = "raised", !.raised = "ValueError"]
    ELSE [r EXCEPT !.pc = "scan", !.it = product(r.k), !.results = << >>]

\* lines 68-81, one iteration of the loop: the next tuple is validated, a
\* valid one is appended, and the loop is left when the cap is reached; an
\* exception of is_valid_peptide leaves generate_peptides
ScanStep(r, how) ==
    Bind(NextOf(r.it), LAMBDA it2 :
    Bind(TupleOf(it2.idx), LAMBDA seq :
    Bind(is_valid_peptide(seq, how), LAMBDA v :
        IF v = "True"
        THEN Bind(append(r.results, candidate(seq, r.k, how)), LAMBDA res2 :
                 [r EXCEPT !.it = it2, !.results = res2,
                           !.pc = IF cap_reached(res2, r.max_results)
                                  THEN "stats" ELSE "scan"])
        ELSE IF v = "False" THEN [r EXCEPT !.it = it2]
        ELSE [r EXCEPT !.it = it2, !.pc = "raised", !.raised = v])))

\* line 68: next() raises StopIteration, the loop ends
ScanExhausted(r) == [r EXCEPT !.pc = "stats"]

\* lines 83-91: the statistics, then the results are returned
Stats(r) ==
    [r EXCEPT !.total_sequences = power(Len(sorted_aas), r.k),
              !.valid_ratio = validation_ratio(Len(r.results), r.max_results),
              !.pc = "returned"]

KRange == -1..MaxK

MRange == (-1..MaxM) \cup {DeepM}

Init ==
    /\ float_sum \in FloatSums
    /\ run \in {NewCall(k, m) : k \in KRange, m \in MRange}
    /\ peer = NoCall
    /\ twin = NoCall
    /\ sequence = << >>
    /\ verdict = "none"
    /\ vpc = "idle"

DoStart ==
    /\ run.pc = "call"
    /\ run' = Start(run)
    /\ UNCHANGED << float_sum, sequence, verdict, vpc, peer, twin >>

DoScanStep ==
    /\ run.pc = "scan"
    /\ HasNext(run.it)
    /\ run' = ScanStep(run, float_sum)
    /\ UNCHANGED << float_sum, sequence, verdict, vpc, peer, twin >>

DoScanExhausted ==
    /\ run.pc = "scan"
    /\ ~HasNext(run.it)
    /\ run' = ScanExhausted(run)
    /\ UNCHANGED << float_sum, sequence, verdict, vpc, peer, twin >>

DoStats ==
    /\ run.pc = "stats"
    /\ run' = Stats(run)
    /\ UNCHANGED << float_sum, sequence, verdict, vpc, peer, twin >>

Next == DoStart \/ DoScanStep \/ DoScanExhausted \/ DoStats

\* one call of generate_peptides
Spec == Init /\ [][Next]_vars

\* the loop has no suspension point: the call keeps running until it returns
FairSpec == Spec /\ WF_vars(Next)

\* ---------------------------------------------- three calls, side by side
\* whatever a call does next; a finished call stays as it is
Step(r, how) ==
    IF r.pc = "call" THEN Start(r)
    ELSE IF r.pc = "scan" THEN (IF HasNext(r.it) THEN ScanStep(r, how) ELSE ScanExhausted(r))
    ELSE IF r.pc = "stats" THEN Stats(r)
    ELSE r

Finished(r) == r.pc \in {"returned", "raised"}

PairInit ==
    /\ float_sum \in FloatSums
    /\ \E k \in 1..MaxK, m \in MRange :
          /\ m >= 1
          /\ run = NewCall(k, m)
          /\ peer = NewCall(k, m + 1)
          /\ twin = NewCall(k, m)
    /\ sequence = << >>
    /\ verdict = "none"
    /\ vpc = "idle"

\* the three calls share nothing, so any interleaving of their steps ends in
\* the same three results; they are stepped together
PairStep ==
    /\ ~(Finished(run) /\ Finished(peer) /\ Finished(twin))
    /\ run' = Step(run, float_sum)
    /\ peer' = Step(peer, float_sum)
    /\ twin' = Step(twin, float_sum)
    /\ UNCHANGED << float_sum, sequence, verdict, vpc >>

PairSpec == PairInit /\ [][PairStep]_vars

\* ------------------------------------- direct calls of is_valid_peptide
\* the codes the direct calls draw from: ten of the catalog and one outside it
InputCodes == {"A", "C", "D", "F", "I", "N", "S", "T", "V", "Y", UnknownCode}

\* two long sequences at the upper mass bound: total mass 2000 and 2001
LongProbes ==
    { << "I", "V", "F", "C", "Y", "C", "V", "C", "Y", "Y", "I", "Y", "C", "I" >>,
      << "I", "V", "F", "I", "C", "C", "I", "C", "Y", "C", "Y", "C", "V", "C", "C" >> }

\* a sequence of seven codes whose hydrophobicities add up to exactly 7.0
MeanOneProbe == << "N", "T", "V", "T", "V", "T", "V" >>

InputSeqs == UNION {[1..n -> InputCodes] : n \in 0..MaxLen} \cup LongProbes \cup {MeanOneProbe}

ValidInit ==
    /\ float_sum \in FloatSums
    /\ sequence \in InputSeqs
    /\ verdict = "none"
    /\ vpc = "call"
    /\ run = NoCall
    /\ peer = NoCall
    /\ twin = NoCall

\* is_valid_peptide(sequence) runs: it returns a bool or raises
Validate ==
    /\ vpc = "call"
    /\ verdict' = is_valid_peptide(sequence, float_sum)
    /\ vpc' = IF verdict' \in {"True", "False"} THEN "returned" ELSE "raised"
    /\ UNCHANGED << float_sum, sequence, run, peer, twin >>

ValidSpec == ValidInit /\ [][Validate]_vars

\* ================================================================= claims
\* The definitions below state the properties; they are written from the
\* meaning of the words (a run of three, lexicographic order, the decimal
\* mean), not from the operators that model the code.

\* some three consecutive positions of s hold the same code
HasRun3(s) == \E i \in 1..(Len(s) - 2) : s[i] = s[i + 1] /\ s[i + 1] = s[i + 2]

AllKnown(s) == \A i \in 1..Len(s) : s[i] \in Codes

RECURSIVE TotalOf(_, _)
\* the sum of f[code] over the codes of the (finite) sequence s
TotalOf(s, f) == IF s = << >> THEN 0 ELSE f[Head(s)] + TotalOf(Tail(s), f)

\* residue masses, and hydrophobicities as the decimal numbers written in the
\* catalog, in tenths
MassOf == [c \in Codes |-> amino_acids[c].mass]

TenthsOf == [c \in Codes |-> amino_acids[c].hydrophobicity.t]

NonpolarOf == [c \in Codes |-> IF amino_acids[c].polarity = "nonpolar" THEN 1 ELSE 0]

\* the four conditions of the validity predicate, in exact arithmetic
MassInWindow(s) == 500 <= TotalOf(s, MassOf) /\ TotalOf(s, MassOf) <= 2000

MeanAboveOne(s) == TotalOf(s, TenthsOf) > 10 * Len(s)

AtMostHalfNonpolar(s) == 2 * TotalOf(s, NonpolarOf) <= Len(s)

AllFour(s) == ~HasRun3(s) /\ MassInWindow(s) /\ MeanAboveOne(s) /\ AtMostHalfNonpolar(s)

\* a comes strictly before b in lexicographic order (same length)
LexLess(a, b) ==
    \E i \in 1..Len(a) :
        /\ ord[a[i]] < ord[b[i]]
        /\ \A j \in 1..(i - 1) : a[j] = b[j]

\* every sequence over the catalog of the length of last that is not after it
NotAfter(last) ==
    {last} \cup
    UNION { { [j \in 1..Len(last) |->
                 IF j < i THEN last[j] ELSE IF j = i THEN c ELSE tail[j - i]] :
              c \in {x \in Codes : ord[x] < ord[last[i]]},
              tail \in [1..(Len(last) - i) -> Codes] } : i \in 1..Len(last) }

\* the sequences of the records of a result list
SequencesOf(results) == {results[i].sequence : i \in 1..Len(results)}

\* the call under study was given valid parameters
ValidCall(r) == r.k >= 1 /\ r.max_results >= 1

\* the iterator has yielded the last tuple of the product
AtLastTuple(it) == ~it.fresh /\ \A i \in 1..Len(it.idx) : sorted_aas[it.idx[i]] = "Y"

\* C1: with k >= 1 and M >= 1 the result list never holds more than M
\* candidates, the call returns (no error), and when it returns with fewer
\* than M candidates their number is the number of length-k sequences that
\* is_valid_peptide accepts.
C1_CapRespected ==
    ValidCall(run) =>
        /\ Len(run.results) <= run.max_results
        /\ run.pc # "raised"
        /\ (run.pc = "returned" /\ Len(run.results) < run.max_results) =>
               Len(run.results) =
                   Cardinality({s \in [1..run.k -> Codes] :
                                   is_valid_peptide(s, float_sum) = "True"})

\* C1 witness: a call returned with its cap (of at least 2) filled
C1_Witness ==
    /\ run.pc = "returned"
    /\ run.max_results >= 2
    /\ run.max_results <= MaxM
    /\ Len(run.results) = run.max_results

C3_RecordsWithinConstraints ==
    ValidCall(run) =>
        \A i \in 1..Len(run.results) :
            LET c == run.results[i]
            IN  /\ 500 <= c.mass /\ c.mass <= 2000
                /\ c.hydrophobicity > 100
                /\ c.nonpolar_ratio <= 50
                /\ ~HasRun3(c.sequence)

\* C4 (as claimed): a call with k < 1 or max_results < 1 is rejected before
\* anything is enumerated: it never scans, computes statistics or returns.
C4_InvalidParametersRejected ==
    ~ValidCall(run) =>
        /\ run.pc \in {"call", "raised"}
        /\ run.it.fresh
        /\ run.results = << >>

\* C5 (as claimed): for a non-empty sequence of catalog codes
\* is_valid_peptide returns true exactly when all four conditions hold (in
\* particular a mean of exactly 1.0 is rejected).
C5_VerdictIsConjunction ==
    (vpc # "call" /\ Len(sequence) > 0 /\ AllKnown(sequence)) =>
        /\ vpc = "returned"
        /\ (verdict = "True") <=> AllFour(sequence)

\* C6: a sequence with a run of three identical codes, wherever it starts, is
\* rejected; the repeat check finds a window exactly when there is such a
\* run, so it never fails a sequence of length 1 or 2; and a sequence of
\* catalog codes without such a run that meets the other three conditions is
\* accepted.
C6_RunLength ==
    /\ repeat_window(sequence, 1) <=> HasRun3(sequence)
    /\ Len(sequence) < 3 => ~repeat_window(sequence, 1)
    /\ vpc # "call" =>
          /\ HasRun3(sequence) => (vpc = "returned" /\ verdict = "False")
          /\ ( /\ ~HasRun3(sequence)
               /\ Len(sequence) > 0
               /\ AllKnown(sequence)
               /\ MassInWindow(sequence)
               /\ MeanAboveOne(sequence)
               /\ AtMostHalfNonpolar(sequence) ) => verdict = "True"

\* C6 witness: a call rejected a sequence whose only run of three is its last
\* three positions
C6_Witness ==
    /\ vpc = "returned"
    /\ verdict = "False"
    /\ Len(sequence) = 4
    /\ sequence[1] # sequence[2]
    /\ sequence[2] = sequence[3]
    /\ sequence[3] = sequence[4]
    /\ AllKnown(sequence)
    /\ MassInWindow(sequence) /\ MeanAboveOne(sequence) /\ AtMostHalfNonpolar(sequence)

\* C7 (as claimed): the validation ratio is validCount / maxResults, a value
\* between 0 and 1 that is 1 exactly when the cap was reached.  valid_ratio
\* is held in hundredths, so 1 is 100.
C7_RatioIsFraction ==
    (ValidCall(run) /\ run.pc = "returned") =>
        /\ run.valid_ratio * run.max_results = 100 * Len(run.results)
        /\ 0 <= run.valid_ratio /\ run.valid_ratio <= 100
        /\ (run.valid_ratio = 100) <=> (Len(run.results) = run.max_results)

\* C7 (amended): the validation ratio is validCount / maxResults as a
\* percentage rounded to two decimals, between 0 and 100; it is 100 when the
\* cap was reached and, for a cap below 20000, only then.  The same holds of
\* the formula for every count from 0 to the cap, whichever the scan found.
C7_RatioIsPercentage ==
    (ValidCall(run) /\ run.pc = "returned") =>
        LET d == run.valid_ratio * run.max_results - 10000 * Len(run.results)
        IN  /\ 2 * d <= run.max_results /\ -2 * d <= run.max_results
            /\ 0 <= run.valid_ratio /\ run.valid_ratio <= 10000
            /\ Len(run.results) = run.max_results => run.valid_ratio = 10000
            /\ (run.max_results < 20000 /\ run.valid_ratio = 10000) =>
                   Len(run.results) = run.max_results
            /\ \A n \in 0..run.max_results :
                   LET v == validation_ratio(n, run.max_results)
                       dn == v * run.max_results - 10000 * n
                   IN  /\ 2 * dn <= run.max_results /\ -2 * dn <= run.max_results
                       /\ (v = 10000) <=> (n = run.max_results)

\* C7 witness: a call returned with a ratio of 100 percent
C7_Witness == ValidCall(run) /\ run.pc = "returned" /\ run.valid_ratio = 10000

\* C8: with k >= 1 and M >= 1 the scan terminates; it is left only by the
\* append that brings the list to M entries or when the product is exhausted
\* with the list below M; and once the list holds M entries the iterator and
\* the list never change again.
C8_ScanHalts ==
    /\ [](ValidCall(run) => <>(run.pc = "returned"))
    /\ [][ (ValidCall(run) /\ run.pc = "scan" /\ run'.pc # "scan") =>
              /\ run'.pc = "stats"
              /\ \/ /\ Len(run'.results) = run.max_results
                    /\ Len(run.results) = run.max_results - 1
                    /\ run'.it # run.it
                 \/ /\ AtLastTuple(run.it)
                    /\ run'.it = run.it
                    /\ run'.results = run.results
                    /\ Len(run.results) < run.max_results ]_vars
    /\ [][ (ValidCall(run) /\ run.pc # "call" /\ Len(run.results) >= run.max_results) =>
              (run'.it = run.it /\ run'.results = run.results) ]_vars
    /\ [][ (ValidCall(run) /\ run.pc = "scan") =>
              (run'.it # run.it \/ AtLastTuple(run.it)) ]_vars

\* C8 witness: a call returned on its cap with tuples of the product left
C8_Witness ==
    /\ ValidCall(run)
    /\ run.pc = "returned"
    /\ Len(run.results) = run.max_results
    /\ ~AtLastTuple(run.it)

\* C9 (as claimed): is_valid_peptide never returns a verdict for a sequence
\* with a code outside the catalog: it raises the unknown-residue error.
C9_UnknownAlwaysRaises ==
    (vpc # "call" /\ ~AllKnown(sequence)) => (vpc = "raised" /\ verdict = "KeyError")

\* C9 (amended): for a sequence with a code outside the catalog,
\* is_valid_peptide raises the unknown-residue error (KeyError) when the
\* sequence has no three identical consecutive codes, and returns false
\* without any lookup when it has.
C9_UnknownRaisesUnlessRun3 ==
    (vpc # "call" /\ ~AllKnown(sequence)) =>
        IF HasRun3(sequence)
        THEN vpc = "returned" /\ verdict = "False"
        ELSE vpc = "raised" /\ verdict = "KeyError"

\* C9 witness: the unknown code is the last of four, the others are known
C9_Witness ==
    /\ vpc = "raised"
    /\ verdict = "KeyError"
    /\ Len(sequence) = 4
    /\ sequence[4] = UnknownCode
    /\ \A i \in 1..3 : sequence[i] \in Codes

====
